---- MODULE Spec2Model ----
(***************************************************************************)
(* Model of the two skill-sync command line tools                          *)
(*   skills-manager/manage_skills.py      (the unified tool)               *)
(*   opencode-installer/manage_skills.py  (the single-target tool)         *)
(* over one shared file system.  A path is a sequence of components, the   *)
(* file system maps every existing path to "dir" or to the content of a    *)
(* plain file.  One invocation of a tool is the action main followed, for  *)
(* install and remove, by one loop step per skill and the summary.         *)
(***************************************************************************)
EXTENDS Integers, Sequences, FiniteSets, TLC

VARIABLES fs, cwd, profile, pc, tool, args, source_root, dest_root, skills,
          results, success_count, out, summary, exit_code, fs0, prev, runs

vars == <<fs, cwd, profile, pc, tool, args, source_root, dest_root, skills,
          results, success_count, out, summary, exit_code, fs0, prev, runs>>

(***************************************************************************)
(* Bounds                                                                  *)
(***************************************************************************)
\* longest path the file system accepts (PATH_MAX / recursion limit)
MaxDepth == 8
\* number of install / remove invocations in one behaviour (list is free)
MaxRuns == 1

(***************************************************************************)
(* Paths                                                                   *)
(***************************************************************************)
Root == << >>
Home == <<"home">>
Repo == <<"repo">>
Ws   == <<"home", "ws">>

Parent(p) == IF p = Root THEN Root ELSE SubSeq(p, 1, Len(p) - 1)
LastOf(p) == p[Len(p)]
IsPrefix(p, q) == Len(p) <= Len(q) /\ SubSeq(q, 1, Len(p)) = p

\* names for which str.startswith(".") holds, over the alphabet of the model
DotNames == {".", "..", ".agent", ".cache", ".config", ".gemini", ".hid"}
startswith_dot(n) == n \in DotNames

\* the alphabet of entry names in lexicographic (code point) order
NameOrder == <<".agent", ".cache", ".config", ".gemini", ".hid", "README",
               "SKILL.md", "alpha", "antigravity", "beta", "home",
               "manage_skills.py", "notes", "old.txt", "opencode",
               "opencode-installer", "proj", "ref", "repo", "skills",
               "skills-manager", "sub", "ws">>

\* PurePath.__truediv__: "." components are dropped, ".." is kept
Join(base, name) == base \o SelectSeq(name, LAMBDA c : c # ".")

(***************************************************************************)
(* File system primitives                                                  *)
(***************************************************************************)
IsDirAt(f, p)  == p \in DOMAIN f /\ f[p] = "dir"
Children(f, p) == {q \in DOMAIN f : Len(q) = Len(p) + 1 /\ IsPrefix(p, q)}
Under(f, p)    == {q \in DOMAIN f : IsPrefix(p, q)}
Subtree(f, p)  == {<<SubSeq(q, Len(p) + 1, Len(q)), f[q]>> : q \in Under(f, p)}

\* kernel path resolution of a raw path that may hold ".." components
RECURSIVE Walk(_, _, _)
Walk(f, cur, rest) ==
    IF rest = << >> THEN [ok |-> cur \in DOMAIN f, path |-> cur]
    ELSE IF ~IsDirAt(f, cur) THEN [ok |-> FALSE, path |-> cur]
    ELSE IF Head(rest) = ".." THEN Walk(f, Parent(cur), Tail(rest))
    ELSE Walk(f, cur \o <<Head(rest)>>, Tail(rest))
Resolve(f, raw) == Walk(f, Root, raw)

exists(f, raw) == Resolve(f, raw).ok

\* a deterministic listing order of a set of paths
RECURSIVE SetToSeq(_)
SetToSeq(S) == IF S = {} THEN << >>
               ELSE LET x == CHOOSE y \in S : TRUE
                    IN <<x>> \o SetToSeq(S \ {x})

Remove(f, gone) == [q \in (DOMAIN f) \ gone |-> f[q]]
Put(f, p, v)    == [q \in (DOMAIN f) \cup {p} |-> IF q = p THEN v ELSE f[q]]

(***************************************************************************)
(* shutil.rmtree, Path.mkdir(parents=True, exist_ok=True), shutil.copytree *)
(* Each returns the new file system and whether it returned normally       *)
(* (ok = FALSE: it raised an exception, leaving the file system as shown). *)
(***************************************************************************)
\* defective variant: the final rmdir of the tree's top directory is forgotten
rmtree_contents_only(f, raw) ==
    LET r == Resolve(f, raw) IN
    IF ~r.ok \/ f[r.path] # "dir" THEN [fs |-> f, ok |-> FALSE]
    ELSE [fs |-> Remove(f, Under(f, r.path) \ {r.path}), ok |-> TRUE]

rmtree(f, raw) ==
    LET r == Resolve(f, raw) IN
    IF ~r.ok \/ f[r.path] # "dir" THEN [fs |-> f, ok |-> FALSE]
    ELSE LET f1 == Remove(f, Under(f, r.path) \ {r.path})
             r2 == Resolve(f1, raw)
         IN IF ~r2.ok \/ r2.path = Root THEN [fs |-> f1, ok |-> FALSE]
            ELSE [fs |-> Remove(f1, {r2.path}), ok |-> TRUE]

RECURSIVE mkdir_parents(_, _)
mkdir_parents(f, p) ==
    IF p \in DOMAIN f THEN [fs |-> f, ok |-> f[p] = "dir"]
    ELSE LET r == mkdir_parents(f, Parent(p)) IN
         IF ~r.ok \/ Len(p) > MaxDepth THEN [fs |-> r.fs, ok |-> FALSE]
         ELSE [fs |-> Put(r.fs, p, "dir"), ok |-> TRUE]

RECURSIVE copy_entries(_, _, _, _, _)
RECURSIVE copytree_plain(_, _, _)
copytree_plain(f, src, dst) ==
    IF ~IsDirAt(f, src) \/ dst \in DOMAIN f \/ ~IsDirAt(f, Parent(dst))
       \/ Len(dst) > MaxDepth
    THEN [fs |-> f, ok |-> FALSE]
    ELSE LET entries == SetToSeq({LastOf(q) : q \in Children(f, src)})
         IN copy_entries(Put(f, dst, "dir"), src, dst, entries, TRUE)

\* defective variant: subdirectories are created but not descended into
RECURSIVE copy_entries_shallow(_, _, _, _, _)
copy_entries_shallow(f, src, dst, entries, ok) ==
    IF entries = << >> THEN [fs |-> f, ok |-> ok]
    ELSE LET e == Head(entries)
             s == src \o <<e>>
             d == dst \o <<e>>
         IN IF s \notin DOMAIN f \/ Len(d) > MaxDepth
            THEN copy_entries_shallow(f, src, dst, Tail(entries), FALSE)
            ELSE copy_entries_shallow(Put(f, d, f[s]), src, dst, Tail(entries), ok)

copy_entries(f, src, dst, entries, ok) ==
    IF entries = << >> THEN [fs |-> f, ok |-> ok]
    ELSE LET e == Head(entries)
             s == src \o <<e>>
             d == dst \o <<e>>
         IN IF s \notin DOMAIN f \/ Len(d) > MaxDepth
            THEN copy_entries(f, src, dst, Tail(entries), FALSE)
            ELSE IF f[s] = "dir"
            THEN LET r == copytree_plain(f, s, d)
                 IN copy_entries(r.fs, src, dst, Tail(entries), ok /\ r.ok)
            ELSE copy_entries(Put(f, d, f[s]), src, dst, Tail(entries), ok)

copytree(f, srcRaw, dstRaw) ==
    LET s == Resolve(f, srcRaw) IN
    IF ~s.ok \/ exists(f, dstRaw) THEN [fs |-> f, ok |-> FALSE]
    ELSE copytree_plain(f, s.path, dstRaw)

(***************************************************************************)
(* The tools' functions                                                    *)
(***************************************************************************)
script_dir(t) == Repo \o <<IF t = "unified" THEN "skills-manager"
                                            ELSE "opencode-installer">>

\* returns the source root, or ok = FALSE for the sys.exit(1) branch
get_source_skills_dir(t, f) ==
    LET repo_root  == Parent(script_dir(t))
        skills_dir == IF t = "unified" THEN repo_root
                                       ELSE repo_root \o <<"skills">>
    IN [ok |-> IsDirAt(f, skills_dir), path |-> skills_dir]

\* defective variant: any entry named .agent counts, a plain file too
RECURSIVE search_upward_any_entry(_, _)
search_upward_any_entry(f, current) ==
    IF current = Parent(current) THEN [found |-> FALSE, path |-> current]
    ELSE IF current \o <<".agent">> \in DOMAIN f
         THEN [found |-> TRUE, path |-> current \o <<".agent", "skills">>]
         ELSE search_upward_any_entry(f, Parent(current))

RECURSIVE search_upward(_, _)
search_upward(f, current) ==
    IF current = Parent(current) THEN [found |-> FALSE, path |-> current]
    ELSE IF IsDirAt(f, current \o <<".agent">>)
         THEN [found |-> TRUE, path |-> current \o <<".agent", "skills">>]
         ELSE search_upward(f, Parent(current))

get_dest_skills_dir(t, target, scope, f, wd) ==
    IF t = "opencode" \/ target = "opencode"
    THEN Home \o <<".config", "opencode", "skills">>
    ELSE IF scope = "global"
    THEN Home \o <<".gemini", "antigravity", "skills">>
    ELSE LET r == search_upward(f, wd) IN
         IF r.found THEN r.path ELSE wd \o <<".agent", "skills">>

\* defective variant: the filter tests is_file in place of is_dir
visible_files(f, root) ==
    {LastOf(q) : q \in {c \in Children(f, root) :
                          f[c] # "dir" /\ ~startswith_dot(LastOf(c))}}

\* the names d.name of dest_root.iterdir() that pass the filter
visible_dirs(f, root) ==
    {LastOf(q) : q \in {c \in Children(f, root) :
                          f[c] = "dir" /\ ~startswith_dot(LastOf(c))}}

sorted(S) == SelectSeq(NameOrder, LAMBDA n : n \in S)

\* the lines list_installed_skills prints; ok = FALSE: iterdir raised
list_installed_skills(f, root) ==
    IF ~exists(f, root) THEN [ok |-> TRUE, msg |-> "no_destination", names |-> << >>]
    ELSE IF ~IsDirAt(f, root) THEN [ok |-> FALSE, msg |-> "traceback", names |-> << >>]
    ELSE IF visible_dirs(f, root) = {}
         THEN [ok |-> TRUE, msg |-> "none_installed", names |-> << >>]
         ELSE [ok |-> TRUE, msg |-> "installed_skills",
               names |-> sorted(visible_dirs(f, root))]

\* an exception the operating system raises inside a try block (an
\* unreadable or undeletable directory): the call fails before it changes
\* anything
IOFaults == {"none", "oserror"}

\* defective variant: the old installation is removed before the source is looked at
install_skill_clear_first(f, source_path, dest_path, io) ==
    LET r == IF ~exists(f, dest_path) THEN [fs |-> f, ok |-> TRUE]
             ELSE IF io = "oserror" THEN [fs |-> f, ok |-> FALSE]
             ELSE rmtree(f, dest_path)
        m == mkdir_parents(r.fs, Parent(dest_path))
        c == IF io = "oserror" THEN [fs |-> m.fs, ok |-> FALSE]
             ELSE copytree(m.fs, source_path, dest_path)
    IN IF ~r.ok THEN [fs |-> r.fs, ok |-> FALSE, msg |-> "error_installing"]
       ELSE IF ~exists(r.fs, source_path)
       THEN [fs |-> r.fs, ok |-> FALSE, msg |-> "warning_source_not_found"]
       ELSE IF ~m.ok THEN [fs |-> m.fs, ok |-> FALSE, msg |-> "error_installing"]
       ELSE IF ~c.ok THEN [fs |-> c.fs, ok |-> FALSE, msg |-> "error_installing"]
       ELSE [fs |-> c.fs, ok |-> TRUE, msg |-> "installed"]

install_skill(f, source_path, dest_path, io) ==
    IF ~exists(f, source_path)
    THEN [fs |-> f, ok |-> FALSE, msg |-> "warning_source_not_found"]
    ELSE LET r == IF ~exists(f, dest_path) THEN [fs |-> f, ok |-> TRUE]
                  ELSE IF io = "oserror" THEN [fs |-> f, ok |-> FALSE]
                  ELSE rmtree(f, dest_path)
             m == mkdir_parents(r.fs, Parent(dest_path))
             c == IF io = "oserror" THEN [fs |-> m.fs, ok |-> FALSE]
                  ELSE copytree(m.fs, source_path, dest_path)
         IN IF ~r.ok THEN [fs |-> r.fs, ok |-> FALSE, msg |-> "error_installing"]
            ELSE IF ~m.ok THEN [fs |-> m.fs, ok |-> FALSE, msg |-> "error_installing"]
            ELSE IF ~c.ok THEN [fs |-> c.fs, ok |-> FALSE, msg |-> "error_installing"]
            ELSE [fs |-> c.fs, ok |-> TRUE, msg |-> "installed"]

remove_skill(f, dest_path, io) ==
    IF ~exists(f, dest_path)
    THEN [fs |-> f, ok |-> FALSE, msg |-> "warning_not_installed"]
    ELSE LET r == IF io = "oserror" THEN [fs |-> f, ok |-> FALSE]
                  ELSE rmtree(f, dest_path)
         IN IF r.ok THEN [fs |-> r.fs, ok |-> TRUE, msg |-> "removed"]
            ELSE [fs |-> r.fs, ok |-> FALSE, msg |-> "error_removing"]

(***************************************************************************)
(* Command lines                                                           *)
(***************************************************************************)
NoSkill == << >>
NameArgs == {<<"alpha">>, <<"beta">>, <<".hid">>, <<"README">>, <<".">>, <<"..">>,
             <<"alpha", "sub">>}

SubArgs ==
    {[command |-> c, skill |-> NoSkill, all |-> FALSE] : c \in {"none", "list", "bogus"}}
    \cup {[command |-> c, skill |-> n, all |-> FALSE] :
             c \in {"install", "remove"}, n \in NameArgs \cup {NoSkill}}
    \cup {[command |-> c, skill |-> NoSkill, all |-> TRUE] :
             c \in {"install", "remove"}}

Argv(t) ==
    IF t = "opencode"
    THEN {[target |-> "n/a", scope |-> "n/a", command |-> a.command,
           skill |-> a.skill, all |-> a.all] : a \in SubArgs}
    ELSE {[target |-> tg, scope |-> sc, command |-> a.command,
           skill |-> a.skill, all |-> a.all] :
             tg \in {"opencode", "antigravity"}, sc \in {"global", "workspace"},
             a \in {b \in SubArgs : b.command # "bogus"}}
         \cup {[target |-> "missing", scope |-> "global", command |-> c,
                skill |-> NoSkill, all |-> FALSE] : c \in {"list", "bogus"}}

\* argparse: --target is required, the command is one of the subparsers
parse_ok(t, a) == a.command # "bogus" /\ (t = "unified" => a.target # "missing")

\* the orders in which iterdir may yield a set of names
Orderings(S) ==
    {q \in [1..Cardinality(S) -> {<<n>> : n \in S}] :
        \A n \in S : \E i \in DOMAIN q : q[i] = <<n>>}

ExcludedTools == {"skills-manager", "antigravity-installer", "opencode-installer"}

\* defective variant: the unified tool forgets its exclusion list
install_all_names_unfiltered(t, f, root) == visible_dirs(f, root)

\* the names install --all enumerates under the source root
install_all_names(t, f, root) ==
    {n \in visible_dirs(f, root) : t = "unified" => n \notin ExcludedTools}

NoRun == [tool |-> "none", command |-> "none", all |-> FALSE, dest_root |-> Root,
          skills |-> << >>, results |-> << >>, exit_code |-> 0]

ThisRun == [tool |-> tool, command |-> args.command, all |-> args.all,
            dest_root |-> dest_root, skills |-> skills, results |-> results,
            exit_code |-> exit_code]

(***************************************************************************)
(* Initial file systems                                                    *)
(***************************************************************************)
MkFs(S) == [p \in {x[1] : x \in S} |-> (CHOOSE x \in S : x[1] = p)[2]]
At(base, tree) == {<<base \o t[1], t[2]>> : t \in tree}
DirsTo(p) == {<<SubSeq(p, 1, k), "dir">> : k \in 0..Len(p)}

SkillNew == {<< << >>, "dir">>, << <<"SKILL.md">>, "v2">>,
             << <<"sub">>, "dir">>, << <<"sub", "ref">>, "r2">>}
SkillOld == {<< << >>, "dir">>, << <<"SKILL.md">>, "v1">>, << <<"old.txt">>, "o1">>}
SkillBeta == {<< << >>, "dir">>, << <<"SKILL.md">>, "b1">>}
Script == {<< << >>, "dir">>, << <<"manage_skills.py">>, "py">>}

RepoTree ==
    DirsTo(Repo)
    \cup At(Repo \o <<"skills-manager">>, Script)
    \cup At(Repo \o <<"opencode-installer">>, Script)
    \cup At(Repo \o <<"alpha">>, SkillNew)
    \cup {<<Repo \o <<".hid">>, "dir">>, <<Repo \o <<"README">>, "readme">>}

SkillsDirTree ==
    At(Repo \o <<"skills", "alpha">>, SkillNew)
    \cup At(Repo \o <<"skills", "skills-manager">>, SkillBeta)
    \cup {<<Repo \o <<"skills">>, "dir">>, <<Repo \o <<"skills", ".hid">>, "dir">>,
          <<Repo \o <<"skills", "README">>, "readme">>}

HomeTree == DirsTo(Ws \o <<".agent">>) \cup DirsTo(Ws \o <<"proj">>)

Layouts == {"empty", "installed", "blocked", "rootfile"}
Cwds == {Ws \o <<"proj">>, Repo, Repo \o <<"alpha">>}

\* what a destination root holds before the first invocation
DestTree(d, layout) ==
    CASE layout = "empty"     -> {}
      [] layout = "installed" -> DirsTo(d) \cup At(d \o <<"alpha">>, SkillOld)
                                  \cup At(d \o <<"beta">>, SkillBeta)
                                  \cup {<<d \o <<".cache">>, "dir">>,
                                        <<d \o <<"notes">>, "n1">>}
      [] layout = "blocked"   -> DirsTo(d) \cup At(d \o <<"beta">>, SkillBeta)
                                  \cup {<<d \o <<"alpha">>, "junk">>}
      [] layout = "rootfile"  -> DirsTo(Parent(d)) \cup {<<d, "junk">>}

\* the tool, target and scope one user works with, and where
Profiles ==
    {[tool |-> "opencode", target |-> "n/a", scope |-> "n/a"]}
    \cup {[tool |-> "unified", target |-> tg, scope |-> sc] :
             tg \in {"opencode", "antigravity"}, sc \in {"global", "workspace"}}
    \cup {[tool |-> "unified", target |-> "missing", scope |-> "global"]}

InitialFs(pr, hasSkillsDir, layout, wd) ==
    LET base == MkFs(RepoTree \cup HomeTree
                     \cup (IF hasSkillsDir THEN SkillsDirTree ELSE {}))
        scope == IF pr.target = "opencode" THEN "global" ELSE pr.scope
        d == get_dest_skills_dir(pr.tool, pr.target, scope, base, wd)
    IN MkFs(RepoTree \cup HomeTree
            \cup (IF hasSkillsDir THEN SkillsDirTree ELSE {})
            \cup DestTree(d, layout))

NoArgs == [target |-> "n/a", scope |-> "n/a", command |-> "none",
           skill |-> NoSkill, all |-> FALSE]

Init ==
    /\ \E pr \in Profiles, h \in BOOLEAN, l \in Layouts, wd \in Cwds :
          /\ pr.tool = "unified" => h
          /\ pr.target = "missing" => l = "empty"
          /\ (pr.target # "antigravity" \/ pr.scope # "workspace") => wd = Ws \o <<"proj">>
          /\ profile = pr
          /\ fs = InitialFs(pr, h, l, wd)
          /\ cwd = wd
    /\ fs0 = fs
    /\ pc = "shell"
    /\ tool = "none"
    /\ args = NoArgs
    /\ source_root = Root
    /\ dest_root = Root
    /\ skills = << >>
    /\ results = << >>
    /\ success_count = 0
    /\ out = << >>
    /\ summary = << >>
    /\ exit_code = 0
    /\ prev = NoRun
    /\ runs = 0

(***************************************************************************)
(* main: argument parsing, path resolution and dispatch.  list runs to its *)
(* end inside this action; install and remove enter their loop.            *)
(***************************************************************************)
Line(m) == [msg |-> m, skill |-> << >>]

Exit(code, lines) ==
    /\ pc' = "shell"
    /\ exit_code' = code
    /\ out' = lines
    /\ skills' = << >>

Loop(kind, lines, names) ==
    /\ pc' = kind
    /\ exit_code' = -1
    /\ out' = lines
    /\ skills' = names

main(t, a) ==
    /\ pc = "shell"
    /\ (parse_ok(t, a) /\ a.command \in {"install", "remove"}) => runs < MaxRuns
    /\ LET downgrade == t = "unified" /\ a.target = "opencode" /\ a.scope = "workspace"
           scope == IF downgrade THEN "global" ELSE a.scope
           head == IF downgrade THEN <<Line("warning_scope_downgrade")>> ELSE << >>
           src == get_source_skills_dir(t, fs)
           dst == get_dest_skills_dir(t, a.target, scope, fs, cwd)
           resolved == parse_ok(t, a) /\ a.command # "none" /\ src.ok
           listing == list_installed_skills(fs, dst)
       IN /\ tool' = t
          /\ args' = IF parse_ok(t, a) /\ a.command # "none"
                     THEN [a EXCEPT !.scope = scope] ELSE a
          /\ source_root' = IF resolved THEN src.path ELSE Root
          /\ dest_root' = IF resolved THEN dst ELSE Root
          /\ runs' = IF parse_ok(t, a) /\ a.command \in {"install", "remove"}
                     THEN runs + 1 ELSE runs
          /\ IF ~parse_ok(t, a) THEN Exit(2, <<Line("argparse_error")>>)
             ELSE IF a.command = "none" THEN Exit(1, <<Line("help")>>)
             ELSE IF ~src.ok THEN Exit(1, head \o <<Line("error_source_root")>>)
             ELSE IF a.command = "list"
             THEN Exit(IF listing.ok THEN 0 ELSE 1,
                       head \o <<[msg |-> listing.msg, skill |-> listing.names]>>)
             ELSE IF a.skill = NoSkill /\ ~a.all
             THEN Exit(1, head \o <<Line("error_specify_skill")>>)
             ELSE IF a.command = "install"
             THEN IF a.all
                  THEN \E q \in Orderings(install_all_names(t, fs, src.path)) :
                          Loop("install", head \o <<Line("found")>>, q)
                  ELSE Loop("install", head, <<a.skill>>)
             ELSE IF ~a.all THEN Loop("remove", head, <<a.skill>>)
             ELSE IF ~exists(fs, dst) THEN Exit(0, head \o <<Line("no_skills_to_remove")>>)
             ELSE IF ~IsDirAt(fs, dst) THEN Exit(1, head \o <<Line("traceback")>>)
             ELSE \E q \in Orderings(visible_dirs(fs, dst)) :
                     Loop("remove", head \o <<Line("found")>>, q)
    /\ prev' = IF summary # << >> THEN ThisRun ELSE prev
    /\ fs0' = fs
    /\ results' = << >>
    /\ success_count' = 0
    /\ summary' = << >>
    /\ UNCHANGED <<fs, cwd, profile>>

Invoke ==
    \E a \in Argv(profile.tool) :
        /\ a.target = profile.target
        /\ a.scope = profile.scope
        /\ main(profile.tool, a)

\* one iteration of "for skill_name in skills_to_install"
InstallStep ==
    /\ pc = "install"
    /\ Len(results) < Len(skills)
    /\ \E io \in IOFaults :
          LET skill_name == skills[Len(results) + 1]
              r == install_skill(fs, Join(source_root, skill_name),
                                 Join(dest_root, skill_name), io)
          IN /\ fs' = r.fs
             /\ results' = Append(results, r.ok)
             /\ success_count' = IF r.ok THEN success_count + 1 ELSE success_count
             /\ out' = Append(out, [msg |-> r.msg, skill |-> skill_name])
    /\ UNCHANGED <<cwd, profile, pc, tool, args, source_root, dest_root, skills,
                   summary, exit_code, fs0, prev, runs>>

\* one iteration of "for skill_name in skills_to_remove"
RemoveStep ==
    /\ pc = "remove"
    /\ Len(results) < Len(skills)
    /\ \E io \in IOFaults :
          LET skill_name == skills[Len(results) + 1]
              r == remove_skill(fs, Join(dest_root, skill_name), io)
          IN /\ fs' = r.fs
             /\ results' = Append(results, r.ok)
             /\ success_count' = IF r.ok THEN success_count + 1 ELSE success_count
             /\ out' = Append(out, [msg |-> r.msg, skill |-> skill_name])
    /\ UNCHANGED <<cwd, profile, pc, tool, args, source_root, dest_root, skills,
                   summary, exit_code, fs0, prev, runs>>

\* defective variant: the loop is left at the first skill that does not succeed
Finish_after_break ==
    /\ pc \in {"install", "remove"}
    /\ Len(results) = Len(skills) \/ (results # << >> /\ ~results[Len(results)])
    /\ summary' = <<success_count, Len(skills)>>
    /\ exit_code' = 0
    /\ pc' = "shell"
    /\ UNCHANGED <<fs, cwd, profile, tool, args, source_root, dest_root, skills,
                   results, success_count, out, fs0, prev, runs>>

\* defective variant: a skill that did not succeed makes the process exit with 1
Finish_failure_code ==
    /\ pc \in {"install", "remove"}
    /\ Len(results) = Len(skills)
    /\ summary' = <<success_count, Len(skills)>>
    /\ exit_code' = IF success_count < Len(skills) THEN 1 ELSE 0
    /\ pc' = "shell"
    /\ UNCHANGED <<fs, cwd, profile, tool, args, source_root, dest_root, skills,
                   results, success_count, out, fs0, prev, runs>>

\* the summary line after the loop; main returns, the process exits with 0
Finish ==
    /\ pc \in {"install", "remove"}
    /\ Len(results) = Len(skills)
    /\ summary' = <<success_count, Len(skills)>>
    /\ exit_code' = 0
    /\ pc' = "shell"
    /\ UNCHANGED <<fs, cwd, profile, tool, args, source_root, dest_root, skills,
                   results, success_count, out, fs0, prev, runs>>

Next == Invoke \/ InstallStep \/ RemoveStep \/ Finish

Spec == Init /\ [][Next]_vars

TypeOK ==
    /\ pc \in {"shell", "install", "remove"}
    /\ exit_code \in {-1, 0, 1, 2}
    /\ runs \in 0..MaxRuns
    /\ Root \in DOMAIN fs
    /\ \A p \in DOMAIN fs : IsDirAt(fs, Parent(p)) /\ Len(p) <= MaxDepth

\* The code is single threaded and synchronous: a started loop runs on.
\* Weak fairness of the loop body is stated with the loop condition, which
\* is the enabling condition of InstallStep and RemoveStep, in place of
\* ENABLED.
InLoop == pc \in {"install", "remove"}
StepFair == <>[](InLoop /\ Len(results) < Len(skills))
               => []<><<Len(results') > Len(results)>>_vars
FairSpec == Spec /\ WF_vars(Finish) /\ StepFair

(***************************************************************************)
(* Workspace-scope resolution on its own: every placement of the marker    *)
(* (absent, a directory, a plain file) along a chain of directories, and   *)
(* every current directory on the chain.                                   *)
(***************************************************************************)
Chain == <<Root, <<"ws">>, <<"ws", "proj">>, <<"ws", "proj", "sub">> >>
MarkerKinds == {"absent", "dir", "file"}

MarkerFs(m) ==
    MkFs(DirsTo(Chain[4])
         \cup {<<Chain[i] \o <<".agent">>, IF m[i] = "dir" THEN "dir" ELSE "junk">> :
                  i \in {j \in 1..4 : m[j] # "absent"}})

InitResolve ==
    /\ \E m \in [1..4 -> MarkerKinds], i \in 1..4 :
          /\ fs = MarkerFs(m)
          /\ cwd = Chain[i]
    /\ profile = [tool |-> "unified", target |-> "antigravity", scope |-> "workspace"]
    /\ fs0 = fs
    /\ pc = "shell"
    /\ tool = "none"
    /\ args = NoArgs
    /\ source_root = Root
    /\ dest_root = Root
    /\ skills = << >>
    /\ results = << >>
    /\ success_count = 0
    /\ out = << >>
    /\ summary = << >>
    /\ exit_code = 0
    /\ prev = NoRun
    /\ runs = 0

ResolveDest ==
    /\ pc = "shell"
    /\ pc' = "resolved"
    /\ dest_root' = get_dest_skills_dir(profile.tool, profile.target, profile.scope, fs, cwd)
    /\ UNCHANGED <<fs, cwd, profile, tool, args, source_root, skills, results,
                   success_count, out, summary, exit_code, fs0, prev, runs>>

NextResolve == ResolveDest

SpecResolve == InitResolve /\ [][NextResolve]_vars

(***************************************************************************)
(* Properties                                                              *)
(***************************************************************************)
Finished == pc = "shell" /\ tool # "none"
Printed(names) == {<<n>> : n \in {names[i] : i \in DOMAIN names}}
ListedNames == IF out # << >> /\ out[Len(out)].msg = "installed_skills"
               THEN Printed(out[Len(out)].skill) ELSE {}
\* a list that ran to its end, on the destination the last install/remove used
ListAfter(command) ==
    /\ Finished
    /\ args.command = "list"
    /\ exit_code = 0
    /\ prev.command = command
    /\ prev.dest_root = dest_root
TreeAt(f, raw) == Subtree(f, Resolve(f, raw).path)

\* C1: every install_skill call that returns True leaves at <dest root>/S
\* exactly the tree that <source root>/S held when the call started
C1_InstallIsFullCopy ==
    [][(pc = "install" /\ Len(results') = Len(results) + 1 /\ results'[Len(results')])
        => LET S == skills[Len(results')]
           IN /\ exists(fs', Join(dest_root, S))
              /\ TreeAt(fs', Join(dest_root, S)) = TreeAt(fs, Join(source_root, S))]_vars

C1_Witness ==
    /\ Finished
    /\ args.command = "install"
    /\ skills = << <<"alpha">> >>
    /\ results = <<TRUE>>
    /\ Join(dest_root, <<"alpha", "old.txt">>) \in DOMAIN fs0
    /\ Join(dest_root, <<"alpha", "old.txt">>) \notin DOMAIN fs
    /\ Join(dest_root, <<"alpha", "sub", "ref">>) \in DOMAIN fs

\* C2: the tree under the tool's source root is the same after every
\* invocation as before it
C2_SourceNeverMutated ==
    LET root == get_source_skills_dir(profile.tool, fs0).path
    IN Subtree(fs, root) = Subtree(fs0, root)

\* C3: after remove_skill(S) returned True no path for S exists under the
\* destination root, and a following list does not print S
C3_RemovedIsGone ==
    /\ args.command = "remove" =>
          \A i \in DOMAIN results :
              results[i] => ~exists(fs, Join(dest_root, skills[i]))
    /\ ListAfter("remove") =>
          \A i \in DOMAIN prev.results :
              prev.results[i] => prev.skills[i] \notin ListedNames

C3_Witness ==
    /\ ListAfter("remove")
    /\ prev.skills = << <<"alpha">> >>
    /\ prev.results = <<TRUE>>
    /\ ListedNames = {<<"beta">>}

InstallAll == args.command = "install" /\ args.all /\ pc \in {"install", "shell"}
           /\ tool # "none" /\ (pc = "shell" => summary # << >>)
SkillSet == {skills[i] : i \in DOMAIN skills}
\* immediate subdirectories of the source root, as the invocation found it
SourceDirs == {LastOf(c) : c \in {q \in Children(fs0, source_root) : fs0[q] = "dir"}}
ManagementTools == {"skills-manager", "antigravity-installer", "opencode-installer"}

\* C4 as claimed: in both tools install --all attempts exactly the source
\* root's subdirectories minus hidden entries minus the management-tool
\* names, and a list afterwards reports that full set
C4_AllSetBothTools ==
    /\ InstallAll =>
          SkillSet = {<<n>> : n \in {m \in SourceDirs :
                                       m \notin DotNames /\ m \notin ManagementTools}}
    /\ (ListAfter("install") /\ prev.all) =>
          {prev.skills[i] : i \in DOMAIN prev.skills} \subseteq ListedNames

\* C4 amended: the management-tool names are excluded by the unified tool
\* only; each enumerated name is attempted once; a list afterwards reports
\* every skill of the batch whose install returned True
C4_AllSetPerTool ==
    /\ InstallAll =>
          /\ SkillSet = {<<n>> : n \in {m \in SourceDirs :
                                          /\ m \notin DotNames
                                          /\ tool = "unified" => m \notin ManagementTools}}
          /\ Cardinality(SkillSet) = Len(skills)
    /\ (ListAfter("install") /\ prev.all) =>
          \A i \in DOMAIN prev.skills :
              prev.results[i] => prev.skills[i] \in ListedNames

C4_Witness ==
    /\ ListAfter("install")
    /\ prev.all
    /\ prev.tool = "opencode"
    /\ prev.results = <<TRUE, TRUE>>
    /\ ListedNames = {<<"alpha">>, <<"beta">>, <<"skills-manager">>}

Successes == Cardinality({i \in DOMAIN results : results[i]})
\* the per-skill lines printed so far, in order
SkillLines == SelectSeq(out, LAMBDA l : l.skill # << >>)

C5_Safety ==
    /\ pc \in {"install", "remove"} =>
          /\ Len(results) <= Len(skills)
          /\ success_count = Successes
    /\ (args.command \in {"install", "remove"} /\ tool # "none") =>
          /\ Len(SkillLines) = Len(results)
          /\ \A i \in DOMAIN results : SkillLines[i].skill = skills[i]
    /\ (Finished /\ args.command \in {"install", "remove"} /\ skills # << >>) =>
          /\ Len(results) = Len(skills)
          /\ summary = <<Successes, Len(skills)>>

\* C5: a batch processes every enumerated skill exactly once, in order,
\* whatever the earlier skills did, and always reaches the summary line,
\* whose count is the number of operations that returned True
C5_BatchRunsToSummary ==
    /\ []C5_Safety
    /\ InLoop ~> (pc = "shell" /\ summary # << >>)

C5_Witness ==
    /\ Finished
    /\ args.all
    /\ Len(skills) = 2
    /\ results = <<FALSE, TRUE>>
    /\ summary = <<1, 2>>

\* the source root of the tool, whether or not it exists
SourcePath == get_source_skills_dir(tool, fs0).path
SourceOk == IsDirAt(fs0, SourcePath)
ParseFails == args.command = "bogus" \/ (tool = "unified" /\ args.target = "missing")
NothingAsked == args.skill = NoSkill /\ ~args.all

\* C6 as claimed: install, remove and the empty command line exit with 1
\* when no command, or neither a name nor --all, is given or parsing fails,
\* and with 0 in every other case
C6_ExitCodeOneOrZero ==
    (Finished /\ args.command # "list") =>
        exit_code = IF ParseFails \/ args.command = "none" \/ NothingAsked
                    THEN 1 ELSE 0

\* C6 amended: argparse exits with 2 when parsing fails; the exit code is 1
\* when no command is given, when the source root cannot be located, when
\* neither a name nor --all is given, or when remove --all finds a
\* destination root that is not a directory; it is 0 in every other case,
\* whatever the per-skill results are
C6_ExitCode ==
    (Finished /\ args.command # "list") =>
        exit_code =
            IF ParseFails THEN 2
            ELSE IF args.command = "none" \/ ~SourceOk \/ NothingAsked THEN 1
            ELSE IF args.command = "remove" /\ args.all
                    /\ dest_root \in DOMAIN fs0 /\ fs0[dest_root] # "dir" THEN 1
            ELSE 0

C6_Witness ==
    /\ Finished
    /\ args.command = "install"
    /\ args.all
    /\ results = <<FALSE, FALSE>>
    /\ exit_code = 0

SingleInstall == Finished /\ ~ParseFails /\ args.command = "install"
                 /\ ~args.all /\ args.skill # NoSkill
Warned == \E i \in DOMAIN out :
             out[i] = [msg |-> "warning_source_not_found", skill |-> args.skill]

\* C7 as claimed: install <name> for a name with no entry under the source
\* root warns, changes nothing on the file system, reports 0/1, exits 0
C7_MissingSourceAlways ==
    (SingleInstall /\ ~exists(fs0, Join(SourcePath, args.skill))) =>
        Warned /\ fs = fs0 /\ summary = <<0, 1>> /\ exit_code = 0

\* C7 amended: the same, provided the source root itself is a directory
\* (otherwise the tool stops with the configuration error and exit code 1)
C7_MissingSource ==
    (SingleInstall /\ SourceOk /\ ~exists(fs0, Join(SourcePath, args.skill))) =>
        Warned /\ fs = fs0 /\ summary = <<0, 1>> /\ exit_code = 0

C7_Witness ==
    /\ SingleInstall
    /\ args.skill = <<"beta">>
    /\ results = <<FALSE>>
    /\ Warned
    /\ Join(dest_root, <<"beta", "SKILL.md">>) \in DOMAIN fs

\* the current directory and its ancestors, the file system root included
SelfAndAncestors(p) == {SubSeq(p, 1, k) : k \in 0..Len(p)}
HasMarker(A) == IsDirAt(fs, A \o <<".agent">>)
Nearest(S) == CHOOSE A \in S : \A B \in S : Len(B) <= Len(A)
Resolved(candidates) ==
    IF candidates = {} THEN cwd \o <<".agent", "skills">>
    ELSE Nearest(candidates) \o <<".agent", "skills">>

\* C8 as claimed: the nearest of the current directory and all its
\* ancestors, up to and including the file system root, that holds the
\* marker directory decides the result; without one it is <cwd>/.agent/skills;
\* resolution creates nothing
C8_ResolveIncludingRoot ==
    pc = "resolved" =>
        /\ dest_root = Resolved({A \in SelfAndAncestors(cwd) : HasMarker(A)})
        /\ fs = fs0

\* C8 amended: as claimed, except that the file system root itself is never
\* examined: a marker directly under the root is ignored
C8_ResolveBelowRoot ==
    pc = "resolved" =>
        /\ dest_root = Resolved({A \in SelfAndAncestors(cwd) \ {Root} : HasMarker(A)})
        /\ fs = fs0

C8_Witness ==
    /\ pc = "resolved"
    /\ cwd = Chain[4]
    /\ HasMarker(Chain[1])
    /\ HasMarker(Chain[2])
    /\ ~HasMarker(Chain[3])
    /\ Chain[3] \o <<".agent">> \in DOMAIN fs
    /\ ~HasMarker(Chain[4])
    /\ dest_root = Chain[2] \o <<".agent", "skills">>

\* a list after a single-name install whose name is an entry of the source root
ListAfterInstallOfEntry ==
    /\ ListAfter("install")
    /\ ~prev.all
    /\ Len(prev.skills[1]) = 1
    /\ source_root \o prev.skills[1] \in DOMAIN fs

\* C9 as claimed: for every entry name of the source root, hidden names and
\* plain files included, install <name> followed by list prints <name>
C9_EveryEntryListed ==
    ListAfterInstallOfEntry => prev.skills[1] \in ListedNames

\* C9 amended: install <name> followed by list prints <name> when the
\* install reported success and <name> does not start with a dot; a name
\* that starts with a dot is never printed, and the install of an entry that
\* is a plain file never succeeds
C9_InstalledVisibleListed ==
    ListAfterInstallOfEntry =>
        LET name == prev.skills[1] IN
        /\ (prev.results[1] /\ ~startswith_dot(name[1])) => name \in ListedNames
        /\ startswith_dot(name[1]) => name \notin ListedNames
        /\ fs[source_root \o name] # "dir" => ~prev.results[1]

C9_Witness ==
    /\ ListAfterInstallOfEntry
    /\ prev.skills = << <<"alpha">> >>
    /\ prev.results = <<TRUE>>
    /\ <<"alpha">> \in ListedNames
    /\ dest_root \o <<"alpha", "old.txt">> \notin DOMAIN fs

Changed(p) == IF p \in DOMAIN fs /\ p \in DOMAIN fs0 THEN fs[p] # fs0[p]
              ELSE p \in DOMAIN fs \/ p \in DOMAIN fs0

\* C10: a single-name install or remove changes nothing but the tree at
\* <dest root>/<name> (and the missing directories above it that install
\* creates), for every name the command line accepts
C10_SingleNameFrame ==
    (Finished /\ ~ParseFails /\ args.command \in {"install", "remove"}
       /\ ~args.all /\ args.skill # NoSkill) =>
        \A p \in DOMAIN fs \cup DOMAIN fs0 :
            Changed(p) =>
                \/ IsPrefix(dest_root \o args.skill, p)
                \/ /\ IsPrefix(p, dest_root \o args.skill)
                   /\ p \notin DOMAIN fs0
                   /\ fs[p] = "dir"

====
